---- MODULE Spec2Model ----
(***************************************************************************)
(* A model of the realtime audio session of studiocog/soul:                *)
(*   GeminiLiveService (src/components/SoulVisualizer.tsx, lines 86-230)    *)
(*   and the App that drives it (src/App.tsx).                              *)
(*                                                                          *)
(* The service is one record, svc, holding the fields of the class, the     *)
(* position of the suspended connect() call, the state of the SDK's         *)
(* connection, and counters of the calls the service issued on the platform *)
(* and on its observers.  Every method is an operator from a service state  *)
(* to the next one, so that a method calling another (the catch block       *)
(* calling disconnect) is the composition of the two.                       *)
(***************************************************************************)
EXTENDS Integers, Sequences, FiniteSets, TLC

VARIABLES svc, hasClose, play, app

vars == <<svc, hasClose, play, app>>

\* How many times the App may enter ACTIVE, that is, call startSession().
MaxAttempts == 2

\* How many inbound messages a session receives.
MaxMessages == 3

\* The output clock runs from 0 to MaxClock; one unit is 100 ms.
MaxClock == 1

\* A decoded reply frame lasts 1..MaxDuration units.
MaxDuration == 2

(***************************************************************************)
(* GeminiLiveService: fields and construction                              *)
(***************************************************************************)

\* The state after `new GeminiLiveService(config)`: the field initialisers.
\*   pc: where connect() is: "idle" (not called), the await it is suspended
\*       at ("resumeIn", "resumeOut", "getUserMedia", "handshake"), "done"
\*       (returned normally) or "rejected" (an exception left connect()).
\*   socket: the SDK's connection: "none", "connecting", "open", "closing"
\*       (session.close() called), "failed" (error event delivered) or
\*       "closed" (no event will follow).
\*   closeThens: the .then(session => session.close()) callbacks registered by
\*       disconnect() that have not run yet.
\* The remaining fields count calls: on the observers (onError, onClose), on
\* the platform (getUserMedia, trackStop, processorDisconnect, inputClose,
\* outputClose, sessionClose), of handleOpen's pipeline start (captureStarts)
\* and of disconnect() itself (disconnects, of which callerDisconnects were
\* made by the caller; lastTeardown is the number of release calls the latest
\* disconnect() issued).
ServiceInit ==
    [ pc |-> "idle",
      inputAudioContext |-> "null",
      outputAudioContext |-> "null",
      stream |-> "null",
      processor |-> "null",
      sessionPromise |-> "null",
      socket |-> "none",
      closeThens |-> 0,
      wasOpen |-> FALSE,
      netEnd |-> FALSE,
      onError |-> 0,
      onClose |-> 0,
      getUserMedia |-> 0,
      captureStarts |-> 0,
      trackStop |-> 0,
      processorDisconnect |-> 0,
      inputClose |-> 0,
      outputClose |-> 0,
      sessionClose |-> 0,
      closeFailures |-> 0,
      disconnects |-> 0,
      callerDisconnects |-> 0,
      lastTeardown |-> 0 ]

\* 1 when the optional-chained receiver is non-null, so that the call is made.
Called(field) == IF field # "null" THEN 1 ELSE 0

(***************************************************************************)
(* disconnect()                                                            *)
(***************************************************************************)

\* config.onError(...)
onError(s) == [s EXCEPT !.onError = @ + 1]

\* config.onClose()
onClose(s) == [s EXCEPT !.onClose = @ + 1]

\* The body of disconnect(): no await inside, so it runs in one step.  Each
\* optional-chained call is made whenever its field is non-null, whatever the
\* state of the resource: nothing records that a release was already done.
\* close() on a context that is already closed returns a rejected promise
\* nobody awaits (closeFailures counts them); the statements after it run.
teardown(s) ==
    [s EXCEPT
       !.stream = IF @ # "null" THEN "stopped" ELSE @,
       !.trackStop = @ + Called(s.stream),
       !.processor = IF @ # "null" THEN "disconnected" ELSE @,
       !.processorDisconnect = @ + Called(s.processor),
       !.inputAudioContext = IF @ # "null" THEN "closed" ELSE @,
       !.inputClose = @ + Called(s.inputAudioContext),
       !.outputAudioContext = IF @ # "null" THEN "closed" ELSE @,
       !.outputClose = @ + Called(s.outputAudioContext),
       !.closeThens = @ + Called(s.sessionPromise),
       !.closeFailures = @ + (IF s.inputAudioContext = "closed" THEN 1 ELSE 0)
                           + (IF s.outputAudioContext = "closed" THEN 1 ELSE 0),
       !.disconnects = @ + 1,
       !.lastTeardown = Called(s.stream) + Called(s.processor)
                        + Called(s.inputAudioContext)
                        + Called(s.outputAudioContext)]

\* A disconnect() that reports the close itself.
disconnectNotifying(s) == onClose(teardown(s))

\* A disconnect() that awaits each close(): the rejection of the first one
\* ends the call.
disconnectAwaitingClose(s) ==
    IF s.inputAudioContext = "closed"
    THEN [s EXCEPT
            !.stream = IF @ # "null" THEN "stopped" ELSE @,
            !.trackStop = @ + Called(s.stream),
            !.processor = IF @ # "null" THEN "disconnected" ELSE @,
            !.processorDisconnect = @ + Called(s.processor),
            !.inputClose = @ + 1,
            !.closeFailures = @ + 1,
            !.disconnects = @ + 1,
            !.lastTeardown = Called(s.stream) + Called(s.processor) + 1]
    ELSE teardown(s)

\* disconnect()
disconnect(s) == teardown(s)

\* The callback disconnect() chained on sessionPromise, run once the promise
\* has settled: session.close() if the session has such a method, nothing on
\* a rejected promise (.catch(() => {})).
closeThen(s, closable) ==
    IF s.sessionPromise = "resolved" /\ closable
    THEN [s EXCEPT !.closeThens = @ - 1,
                   !.sessionClose = @ + 1,
                   !.socket = IF @ = "open" THEN "closing" ELSE @]
    ELSE [s EXCEPT !.closeThens = @ - 1]

(***************************************************************************)
(* connect()                                                               *)
(***************************************************************************)

\* The catch block of connect(): report, tear down, return normally.
catch(s) == [disconnect(onError(s)) EXCEPT !.pc = "done"]

\* this.sessionPromise = this.client.live.connect({...}); await it.
liveConnect(s) ==
    [s EXCEPT !.sessionPromise = "pending", !.socket = "connecting",
              !.pc = "handshake"]

\* this.stream = await navigator.mediaDevices.getUserMedia({audio: true}):
\* the call is issued and connect() is suspended on it.
callGetUserMedia(s) == [s EXCEPT !.getUserMedia = @ + 1, !.pc = "getUserMedia"]

\* if (outputAudioContext.state === 'suspended') await resume(); else go on.
resumeOutput(s) ==
    IF s.outputAudioContext = "suspended"
    THEN [s EXCEPT !.pc = "resumeOut"]
    ELSE callGetUserMedia(s)

\* if (inputAudioContext.state === 'suspended') await resume(); else go on.
resumeInput(s) ==
    IF s.inputAudioContext = "suspended"
    THEN [s EXCEPT !.pc = "resumeIn"]
    ELSE resumeOutput(s)

\* A resumed context runs, unless it was closed while the resume was pending.
Resumed(ctx) == IF ctx = "suspended" THEN "running" ELSE ctx

\* connect() up to its first await.  The two contexts are constructed before
\* the try block: a constructor that throws (thrower names it) leaves
\* connect() with that exception.  inState and outState are the states the
\* platform creates the contexts in.
connect(s, inState, outState, thrower) ==
    CASE thrower = "input" -> [s EXCEPT !.pc = "rejected"]
      [] thrower = "output" -> [s EXCEPT !.inputAudioContext = inState,
                                         !.pc = "rejected"]
      [] OTHER -> resumeInput([s EXCEPT !.inputAudioContext = inState,
                                        !.outputAudioContext = outState])

\* The await of inputAudioContext.resume() settles.
resumeInSettled(s, ok) ==
    IF ok
    THEN resumeOutput([s EXCEPT !.inputAudioContext = Resumed(@)])
    ELSE catch(s)

\* The await of outputAudioContext.resume() settles.
resumeOutSettled(s, ok) ==
    IF ok
    THEN callGetUserMedia([s EXCEPT !.outputAudioContext = Resumed(@)])
    ELSE catch(s)

\* The await of getUserMedia settles: the stream is stored and the handshake
\* begins, or the denial goes to the catch block.
getUserMediaSettled(s, ok) ==
    IF ok THEN liveConnect([s EXCEPT !.stream = "live"]) ELSE catch(s)

\* The await of sessionPromise settles.
handshakeSettled(s) ==
    IF s.sessionPromise = "resolved" THEN [s EXCEPT !.pc = "done"] ELSE catch(s)

(***************************************************************************)
(* The callbacks handed to the SDK                                         *)
(***************************************************************************)

\* handleOpen(): start the capture pipeline unless a field is null.
handleOpen(s) ==
    IF s.inputAudioContext = "null" \/ s.stream = "null"
    THEN s
    ELSE [s EXCEPT !.processor = "connected", !.captureStarts = @ + 1]

\* onerror: (e) => { console.error(...); this.config.onError(new Error(...)) }
onerror(s) == onError(s)

\* onclose: (e) => { console.log(...); this.config.onClose() }
onclose(s) == onClose(s)

(***************************************************************************)
(* The SDK's connection, as the service sees it through its callbacks      *)
(***************************************************************************)

\* The handshake completes: the SDK calls onopen, then resolves the promise
\* live.connect() returned.
sdkOpen(s) ==
    [handleOpen(s) EXCEPT !.socket = "open", !.sessionPromise = "resolved",
                          !.wasOpen = TRUE]

\* The connection fails: the SDK calls onerror.  A close event follows.
sdkError(s) ==
    [onerror(s) EXCEPT !.socket = "failed",
                       !.netEnd = @ \/ s.socket = "open"]

\* The connection is closed, by the peer, after session.close() or after a
\* failure: the SDK calls onclose.  No event follows.
sdkClose(s) ==
    [onclose(s) EXCEPT !.socket = "closed",
                       !.netEnd = @ \/ s.socket = "open"]

\* live.connect()'s promise rejects: the handshake failed, with or without an
\* error event before it.
sdkReject(s) ==
    [s EXCEPT !.sessionPromise = "rejected",
              !.socket = IF @ = "connecting" THEN "closed" ELSE @]

(***************************************************************************)
(* Playback: handleMessage and stopAudioPlayback                           *)
(***************************************************************************)

\* The playback fields of a new service, with the output clock
\* (outputAudioContext.currentTime) and what the model records of a run:
\*   inflight: the handleMessage calls suspended on decodeAudioData;
\*   arrived: the number of messages received, which numbers them;
\*   msgs: what each message received carried (audio kind, interrupted);
\*   flushes: the number of stopAudioPlayback() calls;
\*   started: one record per source.start(), in the order of the calls;
\*   last: for the latest source.start(), the clock at the call (clockAt)
\*       and the values contig, flushedAt and stale had just before it;
\*   audioData: the frames handed to config.onAudioData, in call order;
\*   flushedAt: the clock at the latest stopAudioPlayback() when nothing was
\*       started since, else -1; stale: nextStartTime just before that flush;
\*   contig: since the latest source.start() there was no flush and no
\*       message that arrived with the clock past nextStartTime.
PlayInit ==
    [ clock |-> 0,
      nextStartTime |-> 0,
      sources |-> {},
      inflight |-> {},
      arrived |-> 0,
      msgs |-> << >>,
      flushes |-> 0,
      started |-> << >>,
      last |-> [clockAt |-> 0, contig |-> FALSE, afterFlush |-> -1, stale |-> 0],
      audioData |-> << >>,
      flushedAt |-> -1,
      stale |-> 0,
      contig |-> FALSE ]

Max(a, b) == IF a >= b THEN a ELSE b

\* A flush that empties the set and leaves nextStartTime as it was.
stopAudioPlaybackKeepTime(p, s) ==
    [p EXCEPT !.sources = {},
              !.flushes = @ + 1,
              !.flushedAt = p.clock,
              !.stale = p.nextStartTime,
              !.contig = FALSE]

\* stopAudioPlayback(): stop and forget every source, restart the timeline
\* at the clock.
stopAudioPlayback(p, s) ==
    [p EXCEPT !.sources = {},
              !.nextStartTime = IF s.outputAudioContext # "null"
                                THEN p.clock ELSE @,
              !.flushes = @ + 1,
              !.flushedAt = p.clock,
              !.stale = p.nextStartTime,
              !.contig = FALSE]

\* if (message.serverContent?.interrupted) this.stopAudioPlayback();
interruptedCheck(p, s, interrupted) ==
    IF interrupted THEN stopAudioPlayback(p, s) ELSE p

\* The length test on decode(base64Audio): a payload of zero bytes.
DecodesToNothing(audio) == audio = "zero"

\* Whether decodeAudioData resolves with a buffer (it rejects otherwise).
DecodeSucceeds(audio) == audio = "valid"

\* A first half that restarts the timeline at the clock on every message.
handleMessageClockOnly(p, s, m) ==
    LET id == p.arrived + 1
        q == [p EXCEPT !.arrived = id,
                       !.msgs = Append(@, [audio |-> m.audio,
                                           interrupted |-> m.interrupted])]
    IN  IF m.audio # "absent" /\ s.outputAudioContext # "null"
        THEN IF DecodesToNothing(m.audio)
             THEN q
             ELSE [q EXCEPT
                     !.nextStartTime = p.clock,
                     !.contig = @ /\ p.clock <= p.nextStartTime,
                     !.inflight = @ \cup {[id |-> id, audio |-> m.audio,
                                           duration |-> m.duration,
                                           interrupted |-> m.interrupted]}]
        ELSE interruptedCheck(q, s, m.interrupted)

\* A first half without the length test on the decoded bytes.
handleMessageNoLengthTest(p, s, m) ==
    LET id == p.arrived + 1
        q == [p EXCEPT !.arrived = id,
                       !.msgs = Append(@, [audio |-> m.audio,
                                           interrupted |-> m.interrupted])]
    IN  IF m.audio # "absent" /\ s.outputAudioContext # "null"
        THEN [q EXCEPT
                !.nextStartTime = Max(@, p.clock),
                !.contig = @ /\ p.clock <= p.nextStartTime,
                !.inflight = @ \cup {[id |-> id, audio |-> m.audio,
                                      duration |-> m.duration,
                                      interrupted |-> m.interrupted]}]
        ELSE interruptedCheck(q, s, m.interrupted)

\* handleMessage(message) up to its await.  m.audio is "absent" (no data, or
\* an empty string), "zero" (data that decodes to zero bytes), "valid" or
\* "bad" (data decodeAudioData rejects).
handleMessage(p, s, m) ==
    LET id == p.arrived + 1
        q == [p EXCEPT !.arrived = id,
                       !.msgs = Append(@, [audio |-> m.audio,
                                           interrupted |-> m.interrupted])]
    IN  IF m.audio # "absent" /\ s.outputAudioContext # "null"
        THEN IF DecodesToNothing(m.audio)
             THEN q
             ELSE [q EXCEPT
                     !.nextStartTime = Max(@, p.clock),
                     !.contig = @ /\ p.clock <= p.nextStartTime,
                     !.inflight = @ \cup {[id |-> id, audio |-> m.audio,
                                           duration |-> m.duration,
                                           interrupted |-> m.interrupted]}]
        ELSE interruptedCheck(q, s, m.interrupted)

\* The try block after the await: report the buffer, start a source at
\* nextStartTime, advance nextStartTime by the buffer's duration, keep the
\* source.
schedule(p, f) ==
    [p EXCEPT
       !.audioData = Append(@, f.id),
       !.started = Append(@, [id |-> f.id,
                              start |-> p.nextStartTime,
                              duration |-> f.duration]),
       !.last = [clockAt |-> p.clock, contig |-> p.contig,
                 afterFlush |-> p.flushedAt, stale |-> p.stale],
       !.nextStartTime = @ + f.duration,
       !.sources = @ \cup {f.id},
       !.contig = TRUE,
       !.flushedAt = -1,
       !.stale = 0]

\* A second half whose try block goes on after a decode that failed.
decodeSettledWithoutCatch(p, s, f) ==
    LET q == [p EXCEPT !.inflight = @ \ {f}]
    IN  interruptedCheck(schedule(q, f), s, f.interrupted)

\* handleMessage from the point decodeAudioData settles, for the suspended
\* call f: the try block or the catch block, then the interrupted check.
decodeSettled(p, s, f) ==
    LET q == [p EXCEPT !.inflight = @ \ {f}]
    IN  interruptedCheck(IF DecodeSucceeds(f.audio) THEN schedule(q, f) ELSE q,
                         s, f.interrupted)

\* decodeAudioData is an asynchronous step: any pending decode may be the
\* next to complete, whatever the order of the calls.
DecodeMayComplete(p, f) == f \in p.inflight

\* The record source.start() made for message id.
StartedOf(p, id) ==
    LET k == CHOOSE k \in 1..Len(p.started) : p.started[k].id = id
    IN  p.started[k]

\* The 'ended' listener of a source: this.sources.delete(source).
ended(p, id) == [p EXCEPT !.sources = @ \ {id}]

\* The messages the server may send.
Messages ==
    [audio : {"absent", "zero", "bad"}, duration : {0}, interrupted : BOOLEAN]
    \cup [audio : {"valid"}, duration : 1..MaxDuration, interrupted : BOOLEAN]

(***************************************************************************)
(* The App (src/App.tsx)                                                   *)
(***************************************************************************)

\* The App after its first render.  apiKey says whether process.env.API_KEY
\* is set.  attempts counts the calls of startSession(), credentialErrors the
\* calls of setErrorMsg("API Key not found in environment.").
AppInit(key) ==
    [ state |-> "LANDING",
      errorMsg |-> "none",
      isMicActive |-> FALSE,
      liveServiceRef |-> "null",
      apiKey |-> key,
      attempts |-> 0,
      credentialErrors |-> 0 ]

\* The observers startSession() hands to the service, run for the calls the
\* service made on them in the step from s0 to s1: onError sets the error
\* message and clears isMicActive, onClose clears isMicActive.
observers(a, s0, s1) ==
    LET a1 == IF s1.onError > s0.onError
              THEN [a EXCEPT !.errorMsg = "service", !.isMicActive = FALSE]
              ELSE a
    IN  IF s1.onClose > s0.onClose THEN [a1 EXCEPT !.isMicActive = FALSE] ELSE a1

\* endSession(), on w = [app, svc]: disconnect the service the ref holds and
\* clear the ref.
endSession(w) ==
    [ app |-> [w.app EXCEPT !.liveServiceRef = "null", !.isMicActive = FALSE],
      svc |-> IF w.app.liveServiceRef # "null"
              THEN [disconnect(w.svc) EXCEPT !.callerDisconnects = @ + 1]
              ELSE w.svc ]

\* A startSession() that constructs and connects the service whatever the
\* API key.
startSessionUnchecked(w, inState, outState, thrower) ==
    [ app |-> [w.app EXCEPT !.attempts = @ + 1,
                            !.isMicActive = TRUE,
                            !.errorMsg = "none",
                            !.liveServiceRef = "service"],
      svc |-> connect(ServiceInit, inState, outState, thrower) ]

\* startSession() up to the first await of connect().  Without an API key it
\* sets the error message and the ERROR state and returns (the effect cleanup
\* run for that change sees state ACTIVE and does nothing).  Otherwise it
\* constructs a service, stores it in the ref and calls connect().
startSession(w, inState, outState, thrower) ==
    IF ~w.app.apiKey
    THEN [ app |-> [w.app EXCEPT !.attempts = @ + 1,
                                 !.errorMsg = "credential",
                                 !.credentialErrors = @ + 1,
                                 !.state = "ERROR"],
           svc |-> w.svc ]
    ELSE [ app |-> [w.app EXCEPT !.attempts = @ + 1,
                                 !.isMicActive = TRUE,
                                 !.errorMsg = "none",
                                 !.liveServiceRef = "service"],
           svc |-> connect(ServiceInit, inState, outState, thrower) ]

\* setState(next) and the session effect run for the change: the cleanup of
\* the effect of the previous render, whose closure holds the previous
\* state, then the effect of the new render.
setState(w, next, inState, outState, thrower) ==
    LET cleaned == IF w.app.state # "ACTIVE" THEN endSession(w) ELSE w
        moved == [cleaned EXCEPT !.app.state = next]
    IN  IF next = "ACTIVE" /\ moved.app.liveServiceRef = "null"
        THEN startSession(moved, inState, outState, thrower)
        ELSE moved

(***************************************************************************)
(* Actions                                                                 *)
(***************************************************************************)

ContextStates == {"suspended", "running"}
Throwers == {"none", "input", "output"}

\* A step of the App that changes its state to next.
AppMove(next, inState, outState, thrower) ==
    LET w == setState([app |-> app, svc |-> svc], next, inState, outState, thrower)
    IN  /\ app' = observers(w.app, svc, w.svc)
        /\ svc' = w.svc
        /\ UNCHANGED <<hasClose, play>>

\* handleStart: BEGIN RESURRECTION.
HandleStart ==
    /\ app.state = "LANDING"
    /\ AppMove("UPLOAD", "running", "running", "none")

\* handleUploadSubmit with a profile that lacks a required field.
HandleUploadRejected ==
    /\ app.state = "UPLOAD"
    /\ app' = [app EXCEPT !.errorMsg = "validation"]
    /\ UNCHANGED <<svc, hasClose, play>>

\* handleUploadSubmit with a complete profile.
HandleUploadSubmit ==
    /\ app.state = "UPLOAD"
    /\ app.attempts < MaxAttempts
    /\ LET w == setState([app |-> [app EXCEPT !.errorMsg = "none"], svc |-> svc],
                         "PROCESSING", "running", "running", "none")
       IN  app' = w.app /\ svc' = w.svc
    /\ UNCHANGED <<hasClose, play>>

\* The last tick of the processing interval: setState(ACTIVE), whose effect
\* calls startSession().
ProcessingDone ==
    /\ app.state = "PROCESSING"
    /\ \E inState \in ContextStates, outState \in ContextStates, thrower \in Throwers :
          AppMove("ACTIVE", inState, outState, thrower)

\* The Terminate Session and Restart buttons of the active view.
Terminate ==
    /\ app.state = "ACTIVE"
    /\ AppMove("LANDING", "running", "running", "none")

\* The REBOOT SYSTEM button of the error view.
Reboot ==
    /\ app.state = "ERROR"
    /\ AppMove("LANDING", "running", "running", "none")

\* A step of the service from svc to next, with the observers it calls.
ServiceStep(next) ==
    /\ svc' = next
    /\ app' = observers(app, svc, next)
    /\ UNCHANGED <<hasClose, play>>

ResumeInSettled ==
    /\ svc.pc = "resumeIn"
    /\ \E ok \in BOOLEAN : ServiceStep(resumeInSettled(svc, ok))

ResumeOutSettled ==
    /\ svc.pc = "resumeOut"
    /\ \E ok \in BOOLEAN : ServiceStep(resumeOutSettled(svc, ok))

GetUserMediaSettled ==
    /\ svc.pc = "getUserMedia"
    /\ \E ok \in BOOLEAN : ServiceStep(getUserMediaSettled(svc, ok))

HandshakeSettled ==
    /\ svc.pc = "handshake"
    /\ svc.sessionPromise \in {"resolved", "rejected"}
    /\ ServiceStep(handshakeSettled(svc))

CloseThen ==
    /\ svc.closeThens > 0
    /\ svc.sessionPromise \in {"resolved", "rejected"}
    /\ ServiceStep(closeThen(svc, hasClose))

SdkOpen ==
    /\ svc.socket = "connecting"
    /\ ServiceStep(sdkOpen(svc))

SdkError ==
    /\ svc.socket \in {"connecting", "open"}
    /\ ServiceStep(sdkError(svc))

SdkClose ==
    /\ svc.socket \in {"open", "closing", "failed"}
    /\ ServiceStep(sdkClose(svc))

SdkReject ==
    /\ svc.sessionPromise = "pending"
    /\ svc.socket \in {"connecting", "failed"}
    /\ ServiceStep(sdkReject(svc))

Init ==
    /\ svc = ServiceInit
    /\ hasClose \in BOOLEAN
    /\ play = PlayInit
    /\ \E key \in BOOLEAN : app = AppInit(key)

Next ==
    \/ HandleStart
    \/ HandleUploadRejected
    \/ HandleUploadSubmit
    \/ ProcessingDone
    \/ Terminate
    \/ Reboot
    \/ ResumeInSettled
    \/ ResumeOutSettled
    \/ GetUserMediaSettled
    \/ HandshakeSettled
    \/ CloseThen
    \/ SdkOpen
    \/ SdkError
    \/ SdkClose
    \/ SdkReject

Spec == Init /\ [][Next]_vars

(***************************************************************************)
(* Playback of an open session                                             *)
(***************************************************************************)

\* The service once connect() has returned with the session open, both
\* contexts created running.
OpenService ==
    handshakeSettled(sdkOpen(getUserMediaSettled(
        connect(ServiceInit, "running", "running", "none"), TRUE)))

\* The App holding that service.
ActiveApp ==
    [AppInit(TRUE) EXCEPT !.state = "ACTIVE", !.isMicActive = TRUE,
                          !.liveServiceRef = "service", !.attempts = 1]

\* The SDK delivers a message: onmessage, bound to handleMessage.
OnMessage ==
    /\ svc.socket = "open"
    /\ play.arrived < MaxMessages
    /\ \E m \in Messages : play' = handleMessage(play, svc, m)
    /\ UNCHANGED <<svc, hasClose, app>>

\* decodeAudioData settles for one of the suspended handleMessage calls.
DecodeSettled ==
    /\ \E f \in play.inflight :
          /\ DecodeMayComplete(play, f)
          /\ play' = decodeSettled(play, svc, f)
    /\ UNCHANGED <<svc, hasClose, app>>

\* A source has played to its end: its 'ended' event.
SourceEnded ==
    /\ \E id \in play.sources :
          /\ play.clock >= StartedOf(play, id).start + StartedOf(play, id).duration
          /\ play' = ended(play, id)
    /\ UNCHANGED <<svc, hasClose, app>>

\* The output clock advances.
Tick ==
    /\ svc.outputAudioContext = "running"
    /\ play.clock < MaxClock
    /\ play' = [play EXCEPT !.clock = @ + 1]
    /\ UNCHANGED <<svc, hasClose, app>>

PlaybackInit ==
    /\ svc = OpenService
    /\ hasClose = TRUE
    /\ play = PlayInit
    /\ app = ActiveApp

PlaybackNext ==
    \/ OnMessage
    \/ DecodeSettled
    \/ SourceEnded
    \/ Tick

PlaybackSpec == PlaybackInit /\ [][PlaybackNext]_vars

(***************************************************************************)
(* Properties                                                              *)
(***************************************************************************)

\* Both device contexts closed and no live microphone stream.
Released(s) ==
    /\ s.stream # "live"
    /\ s.inputAudioContext \notin {"suspended", "running"}
    /\ s.outputAudioContext \notin {"suspended", "running"}

\* connect() and every callback chained by disconnect() have finished.
Settled(s) == s.pc \in {"done", "rejected"} /\ s.closeThens = 0

\* C1 (gapless playback): of two frames started one after the other, with no
\* flush in between and no message that arrived in between with the clock
\* already past nextStartTime, the second starts exactly where the first
\* ends: start(k+1) = start(k) + duration(k).  It is stated of the two frames
\* started latest, which every two consecutive frames once were.
C1_Gapless ==
    LET n == Len(play.started)
    IN  (n >= 2 /\ play.last.contig) =>
            play.started[n].start
                = play.started[n - 1].start + play.started[n - 1].duration

\* C1's case: three 200 ms frames received at clock 0 and started at 0, 200
\* and 400 ms.
C1_Witness ==
    /\ Len(play.started) = 3
    /\ play.clock = 0
    /\ play.last.contig
    /\ \A k \in 1..3 : /\ play.started[k].duration = 2
                        /\ play.started[k].start = 2 * (k - 1)

\* C2 (arrival order): frames are started in the order their messages
\* arrived, whatever the order in which the decodes complete.
C2_ArrivalOrder ==
    \A i, j \in 1..Len(play.started) :
        i < j => play.started[i].id < play.started[j].id

C4_DisconnectIdempotent ==
    svc.disconnects >= 2 => svc.lastTeardown = 0

\* C5 (disconnect releases everything): once the caller has disconnected and
\* the pending asynchronous steps have finished, no microphone stream is live
\* and both contexts are closed.
C5_DisconnectReleases ==
    (svc.callerDisconnects > 0 /\ Settled(svc)) => Released(svc)

\* C6 (onError at most once): the error observer is called at most once per
\* service.
C6_OnErrorAtMostOnce ==
    svc.onError <= 1

C9_ConnectNeverThrows ==
    svc.pc # "rejected"

\* C10 (release on every exit path): once a network error or a close by the
\* peer has ended an open session, and connect() and the chained callbacks
\* have finished, the microphone is stopped, the processor disconnected and
\* both contexts closed.
C10_ReleasedOnNetworkEnd ==
    (svc.netEnd /\ svc.socket = "closed" /\ Settled(svc)) =>
        /\ Released(svc)
        /\ svc.processor # "connected"

\* The ids of the messages that have a pending decode, and of those a source
\* was started for.
InflightIds == {f.id : f \in play.inflight}
StartedIds == {play.started[k].id : k \in 1..Len(play.started)}
AudioDataIds == {play.audioData[k] : k \in 1..Len(play.audioData)}

\* C11 (zero-byte payload): a message whose audio decodes to zero bytes never
\* has a decode pending, a source started or kept, or an onAudioData call,
\* and handling it leaves nextStartTime as it was.
C11_EmptyPayloadIgnored ==
    /\ \A i \in 1..Len(play.msgs) :
          DecodesToNothing(play.msgs[i].audio) =>
              /\ i \notin InflightIds
              /\ i \notin StartedIds
              /\ i \notin play.sources
              /\ i \notin AudioDataIds
    /\ \A m \in Messages :
          DecodesToNothing(m.audio) =>
              handleMessage(play, svc, m).nextStartTime = play.nextStartTime

\* C11's case: a zero-byte message has been handled while the clock was
\* ahead of nextStartTime, and the timeline has not moved.
C11_Witness ==
    /\ Len(play.msgs) = 2
    /\ play.msgs[1].audio = "absent"
    /\ DecodesToNothing(play.msgs[2].audio)
    /\ play.clock = 1
    /\ play.nextStartTime = 0

\* C12 (onAudioData): every frame that decoded is reported exactly once, and
\* the reports are made in the order the messages arrived.
C12_AudioDataInArrivalOrder ==
    /\ \A i \in 1..Len(play.msgs) :
          (DecodeSucceeds(play.msgs[i].audio) /\ i \notin InflightIds) =>
              Cardinality({k \in 1..Len(play.audioData) :
                              play.audioData[k] = i}) = 1
    /\ \A j, k \in 1..Len(play.audioData) :
          j < k => play.audioData[j] < play.audioData[k]

\* C13 (terminal outcomes): a session that has reported onError does not
\* report onClose, and one that has reported onClose does not report onError.
C13_ErrorOrCloseNotBoth ==
    ~(svc.onError >= 1 /\ svc.onClose >= 1)

\* C14 (start not in the past): the start time given to source.start() is
\* never earlier than the output clock at that call, and nextStartTime is
\* then the start time plus the frame's duration.
C14_StartNotBeforeClock ==
    LET n == Len(play.started)
    IN  n >= 1 =>
            /\ play.started[n].start >= play.last.clockAt
            /\ (play.flushedAt = -1 =>
                   play.nextStartTime >=
                       play.started[n].start + play.started[n].duration)

\* The messages whose interruption has been acted on: interrupted is set,
\* the call is not waiting for a decode, and it did not return at the length
\* test.
Interruptions ==
    {i \in 1..Len(play.msgs) : /\ play.msgs[i].interrupted
                               /\ i \notin InflightIds
                               /\ ~DecodesToNothing(play.msgs[i].audio)}

\* C15 (interruption is total): once an interruption has been acted on, no
\* source of a message received before it is kept, including one whose
\* decode was pending when the interruption was handled.
C15_InterruptionTotal ==
    \A i \in Interruptions : \A j \in play.sources : j >= i

\* C16 (interruption always flushes): every message with interrupted set has
\* run stopAudioPlayback() by the end of its handling, whatever its audio.
C16_InterruptAlwaysFlushes ==
    play.flushes =
        Cardinality({i \in 1..Len(play.msgs) : /\ play.msgs[i].interrupted
                                               /\ i \notin InflightIds})

\* C17 (capture start): the capture pipeline is started only by the open
\* event of the handshake, and never on a service that has run disconnect(),
\* whether called from outside or by connect()'s catch block.
C17_NoCaptureAfterDisconnect ==
    /\ svc.captureStarts >= 1 => svc.wasOpen
    /\ svc.processor = "connected" => svc.disconnects = 0

FailsToDecode(audio) ==
    audio # "absent" /\ ~DecodesToNothing(audio) /\ ~DecodeSucceeds(audio)

\* C19 (decode failure is local): a message whose decode fails has no source
\* started or kept and no onAudioData call, its failure changes neither the
\* sources nor nextStartTime, onError is not called, and every message that
\* decodes is still started, whatever failed before it.
C19_DecodeFailureLocal ==
    /\ \A i \in 1..Len(play.msgs) :
          FailsToDecode(play.msgs[i].audio) =>
              /\ i \notin StartedIds
              /\ i \notin play.sources
              /\ i \notin AudioDataIds
    /\ \A f \in play.inflight :
          (FailsToDecode(f.audio) /\ ~f.interrupted) =>
              /\ decodeSettled(play, svc, f).sources = play.sources
              /\ decodeSettled(play, svc, f).nextStartTime = play.nextStartTime
    /\ \A i \in 1..Len(play.msgs) :
          (DecodeSucceeds(play.msgs[i].audio) /\ i \notin InflightIds) =>
              i \in StartedIds
    /\ svc.onError = 0

\* C19's case: the first message failed to decode, and the two after it
\* were started and are kept.
C19_Witness ==
    /\ Len(play.msgs) = 3
    /\ FailsToDecode(play.msgs[1].audio)
    /\ InflightIds = {}
    /\ play.sources = {2, 3}
    /\ svc.onError = 0

\* C20 (monotone timeline): no step lowers nextStartTime, except one in which
\* stopAudioPlayback() runs.
C20_NextStartTimeMonotone ==
    [][play'.nextStartTime >= play.nextStartTime
       \/ play'.flushes > play.flushes]_vars

\* C20's case: a flush has lowered nextStartTime from a time ahead of the
\* clock back to the clock.
C20_Witness ==
    /\ play.flushes = 1
    /\ play.flushedAt = play.clock
    /\ play.stale > play.nextStartTime
    /\ play.nextStartTime = play.clock

\* C21 (connection handle): sessionPromise is null on a service that has not
\* started to connect, and null again once connect() has returned and the
\* service has run disconnect() or has reported onClose.
C21_HandleOnlyWhileLive ==
    /\ svc.pc = "idle" => svc.sessionPromise = "null"
    /\ (svc.pc = "done" /\ (svc.disconnects >= 1 \/ svc.onClose >= 1)) =>
           svc.sessionPromise = "null"

\* C22 (leaving ACTIVE ends the session): whenever the App is in a state
\* other than ACTIVE, liveServiceRef is null, the service it held having
\* been disconnected by the effects run for the change of state.
C22_NoSessionOutsideActive ==
    app.state # "ACTIVE" => app.liveServiceRef = "null"

====
